---- MODULE Spec2Model ----
(***************************************************************************)
(* Model of src/src/ytmusic_client.py (YouTubeMusicClient): the batch      *)
(* search-and-add workflow, the per-item add loop and the paginated        *)
(* playlist retrieval, run against a remote API whose every call may       *)
(* succeed or fail.                                                        *)
(*                                                                         *)
(* One client invocation runs at a time.  pc is the position inside the    *)
(* running method, calls is the list of remote requests issued so far      *)
(* (with the response each one got), result is what the method returned    *)
(* or raised.                                                              *)
(***************************************************************************)
EXTENDS Integers, Sequences, FiniteSets, TLC

\* ---------------------------------------------------------------- bounds
MaxQueries == 3
MaxIds == 3
MaxPages == 3
MaxPageItems == 2
MaxLimit == 4
MaxDeletes == 2
MaxItems == 2
MaxConcQueries == 2
MaxConcPages == 2

\* ------------------------------------------------------------- constants
\* Python's None, for string-valued and for integer-valued optionals.
None == "<None>"
NoneInt == -1
\* per-call maximum of the remote API (min(limit, 50), maxResults=50)
MaxResultsCap == 50
\* the range the tool schema gives the limit of a search
LimitMin == 1
LimitMax == 100

\* bool(x) for an Optional[str]
Truthy(x) == x # None /\ x # ""
\* bool(n) for an Optional[int]
TruthyInt(n) == n # NoneInt /\ n # 0

Min(a, b) == IF a <= b THEN a ELSE b

\* ----------------------------------------------------------------- inputs
Queries == {"neu", "can music"}
\* "music" in query.lower()
ContainsMusic(q) == q \in {"can music"}

VideoIds == {"v1", "v2"}

SeqsUpTo(S, n) == UNION {[1..k -> S] : k \in 0..n}

\* items the remote search endpoint can return; an item of kind video may
\* come back without id.videoId
SearchItems ==
  { [id |-> [videoId |-> "v1"], snippet |-> [title |-> "t1", channelTitle |-> "c1"]],
    [id |-> [videoId |-> "v2"], snippet |-> [title |-> "t2", channelTitle |-> "c2"]],
    [id |-> [videoId |-> None], snippet |-> [title |-> "t0", channelTitle |-> "c0"]] }

\* what request.execute() of search().list can do: raise, or return at most
\* maxResults items
SearchResponses(maxResults) ==
  {[kind |-> "error", items |-> <<>>]} \cup
  {[kind |-> "ok", items |-> its] : its \in SeqsUpTo(SearchItems, Min(maxResults, MaxItems))}

\* items of a search for playlists carry id.playlistId
PlaylistSearchItems ==
  { [id |-> [playlistId |-> "PLa"], snippet |-> [title |-> "p1", channelTitle |-> "c1"]],
    [id |-> [playlistId |-> None], snippet |-> [title |-> "p0", channelTitle |-> "c0"]] }

\* the remote answers with items of the type asked for
SearchResponsesFor(type, maxResults) ==
  IF type = "video" THEN SearchResponses(maxResults)
  ELSE {[kind |-> "error", items |-> <<>>]} \cup
       {[kind |-> "ok", items |-> its] :
          its \in SeqsUpTo(PlaylistSearchItems, Min(maxResults, MaxItems))}

VARIABLES
  pc,              \* position of the running invocation
  op,              \* the client method invoked by the caller
  caller,          \* who called add_playlist_items: "tool" or "sa"
  calls,           \* remote requests issued so far, oldest first
  result,          \* outcome of the invoked method
  search_queries,  \* search_and_add_to_playlist: argument
  qi,              \* search_and_add_to_playlist: index of the next query
  video_ids,       \* search_and_add_to_playlist: pending-add list
  added_tracks,    \* search_and_add_to_playlist: accumulator
  failed_queries,  \* search_and_add_to_playlist: accumulator
  item_ids,        \* add_playlist_items: argument video_ids
  ii,              \* add_playlist_items: index of the next id
  added,           \* add_playlist_items: counter
  add_result,      \* add_playlist_items: outcome
  add_calls,       \* invocations of add_playlist_items so far
  remote_pages,    \* get_playlist: item count of each page the remote holds
  limit,           \* get_playlist: argument
  total_tracks,    \* get_playlist: itemCount of the metadata
  tracks,          \* get_playlist: accumulator
  next_page_token, \* get_playlist: continuation token
  cp_args,         \* create_playlist: arguments
  ci,              \* create_playlist: index of the next initial id
  created_id,      \* create_playlist: playlist_id, the id of the playlist created
  up_args,         \* update_playlist: arguments
  up_playlist,     \* update_playlist: the playlist fetched
  remote_exists,   \* delete_playlist: does the remote hold the playlist
  del_count,       \* delete_playlist: invocations so far
  st_args,         \* search_tracks: arguments
  server,          \* the server module that runs: stdio or remote
  tool_name,       \* call_tool: name of the tool called
  tool_result,     \* call_tool: what it returned
  pending,         \* remote requests issued and not yet answered
  youtube,         \* self.youtube: the handle of the one client object
  invs,            \* two invocations side by side: each one's position and scalars
  frames           \* two invocations side by side: the accumulator lists

seqVars == <<pc, op, caller, calls, result, search_queries, qi, video_ids,
             added_tracks, failed_queries, item_ids, ii, added, add_result,
             add_calls, remote_pages, limit, total_tracks, tracks, next_page_token,
             cp_args, ci, created_id, up_args, up_playlist, remote_exists,
             del_count, st_args, server, tool_name, tool_result, pending>>

concVars == <<youtube, invs, frames>>
vars == <<seqVars, concVars>>

saVars == <<search_queries, qi, video_ids, added_tracks, failed_queries>>
addVars == <<item_ids, ii, added, add_result, add_calls>>
gpVars == <<remote_pages, limit, total_tracks, tracks, next_page_token>>
cpVars == <<cp_args, ci, created_id>>
upVars == <<up_args, up_playlist>>
dpVars == <<remote_exists, del_count>>
stVars == <<st_args>>
toolVars == <<server, tool_name, tool_result>>

NoResult == [kind |-> "none"]
NoArgs == [given |-> FALSE]

\* src/server.py (stdio transport) and src/server_remote.py (HTTP/SSE)
Servers == {"stdio", "remote"}

\* ------------------------------------------------------------ search_tracks
type_map(filter) ==
  IF filter = "playlists" THEN "playlist" ELSE "video"

SearchQuery(query, filter) ==
  IF filter = "songs" /\ ~ContainsMusic(query) THEN query \o " music" ELSE query

\* SearchRequest passing the limit on as it came
SearchRequest_uncapped(query, lim, filter) ==
  [api |-> "search.list",
   q |-> SearchQuery(query, filter),
   type |-> type_map(filter),
   maxResults |-> lim,
   videoCategoryId |-> IF filter = "songs" THEN "10" ELSE None]

SearchRequest(query, lim, filter) ==
  [api |-> "search.list",
   q |-> SearchQuery(query, filter),
   type |-> type_map(filter),
   maxResults |-> Min(lim, MaxResultsCap),
   videoCategoryId |-> IF filter = "songs" THEN "10" ELSE None]

SearchResultOf(item, search_type) ==
  [videoId |-> IF search_type = "video" THEN item.id.videoId ELSE item.id.playlistId,
   title |-> item.snippet.title,
   artists |-> <<[name |-> item.snippet.channelTitle]>>]

\* search_tracks answering a failed request with an empty list
search_tracks_swallow(query, lim, filter, resp) ==
  IF resp.kind = "error"
  THEN [kind |-> "return", value |-> <<>>]
  ELSE [kind |-> "return",
        value |-> [k \in 1..Len(resp.items) |->
                     SearchResultOf(resp.items[k], type_map(filter))]]

\* the value search_tracks produces from the response of its one request
search_tracks(query, lim, filter, resp) ==
  IF resp.kind = "error"
  THEN [kind |-> "raise", error |-> "RuntimeError", msg |-> "Search failed"]
  ELSE [kind |-> "return",
        value |-> [k \in 1..Len(resp.items) |->
                     SearchResultOf(resp.items[k], type_map(filter))]]

\* Resolved without the identifier test of line 345
Resolved_noIdCheck(r) ==
  /\ r.kind = "return"
  /\ Len(r.value) > 0

\* ------------------------------------------------- search_and_add_to_playlist
\* the condition of line 345 on the outcome of search_tracks
Resolved(r) ==
  /\ r.kind = "return"
  /\ Len(r.value) > 0
  /\ Truthy(r.value[1].videoId)

AddedTrack(query, top) ==
  [query |-> query,
   matched |-> top.title,
   artists |-> [k \in 1..Len(top.artists) |-> top.artists[k].name],
   videoId |-> top.videoId]

\* SAClassify with the handler of lines 356-358 only logging the error
SAClassify_dropOnError(acc, query, r) ==
  IF Resolved(r)
  THEN [video_ids |-> Append(acc.video_ids, r.value[1].videoId),
        added_tracks |-> Append(acc.added_tracks, AddedTrack(query, r.value[1])),
        failed_queries |-> acc.failed_queries]
  ELSE IF r.kind = "raise" THEN acc
  ELSE [video_ids |-> acc.video_ids,
        added_tracks |-> acc.added_tracks,
        failed_queries |-> Append(acc.failed_queries, query)]

\* lines 345-358: what one query does to the three accumulators, given the
\* outcome r of its search
SAClassify(acc, query, r) ==
  IF Resolved(r)
  THEN [video_ids |-> Append(acc.video_ids, r.value[1].videoId),
        added_tracks |-> Append(acc.added_tracks, AddedTrack(query, r.value[1])),
        failed_queries |-> acc.failed_queries]
  ELSE [video_ids |-> acc.video_ids,
        added_tracks |-> acc.added_tracks,
        failed_queries |-> Append(acc.failed_queries, query)]

\* SANeedsBulkAdd without the guard of line 360
SANeedsBulkAdd_always(vids) == TRUE

\* SANextIndex giving up the batch at the first search that raised
SANextIndex_abort(i, r) == IF r.kind = "raise" THEN Len(search_queries) + 1 ELSE i + 1

\* line 342: the for loop goes on to the next query whatever the outcome r
SANextIndex(i, r) == i + 1

\* line 360: is add_playlist_items called
SANeedsBulkAdd(vids) == vids # <<>>

\* SAResult counting the additions add_playlist_items confirmed
SAResult_confirmed(vids, atracks, failed) ==
  [status |-> "completed",
   addedCount |-> IF add_result.kind = "return" THEN add_result.value.addedCount ELSE 0,
   addedTracks |-> atracks,
   failedQueries |-> failed]

\* SAResult counting the queries asked for
SAResult_requested(vids, atracks, failed) ==
  [status |-> "completed",
   addedCount |-> Len(vids) + Len(failed),
   addedTracks |-> atracks,
   failedQueries |-> failed]

\* lines 363-368
SAResult(vids, atracks, failed) ==
  [status |-> "completed",
   addedCount |-> Len(vids),
   addedTracks |-> atracks,
   failedQueries |-> failed]

\* --------------------------------------------------------- add_playlist_items
PlaylistId == "PL1"

\* _add_video_to_playlist: the one request it issues
InsertRequest(playlist_id, video_id) ==
  [api |-> "playlistItems.insert", playlistId |-> playlist_id, videoId |-> video_id]

InsertResponses == {[kind |-> "ok"], [kind |-> "error"]}

\* AddedAfter counting the attempt, not the success
AddedAfter_attempts(n, resp) == n + 1

\* lines 167-171: the counter after the add-item call for one id
AddedAfter(n, resp) == IF resp.kind = "ok" THEN n + 1 ELSE n

\* AddItemsResult raising when an add-item call failed
AddItemsResult_raising(playlist_id, n, ids) ==
  IF n < Len(ids)
  THEN [kind |-> "raise", error |-> "RuntimeError", msg |-> "Failed to add tracks"]
  ELSE [kind |-> "return",
        value |-> [status |-> "success",
                   playlistId |-> playlist_id,
                   addedCount |-> n,
                   requestedCount |-> Len(ids)]]

\* lines 173-178
AddItemsResult(playlist_id, n, ids) ==
  [kind |-> "return",
   value |-> [status |-> "success",
              playlistId |-> playlist_id,
              addedCount |-> n,
              requestedCount |-> Len(ids)]]

\* --------------------------------------------------------------- get_playlist
Limits == {NoneInt} \cup (0..MaxLimit)

RECURSIVE SumSeq(_)
SumSeq(s) == IF s = <<>> THEN 0 ELSE s[1] + SumSeq(Tail(s))

\* the remote playlist: page k holds sizes[k] items, numbered by their
\* position in the playlist
RemoteItem(p) ==
  [snippet |-> [title |-> <<"title", p>>,
                resourceId |-> [videoId |-> <<"vid", p>>],
                videoOwnerChannelTitle |-> "owner",
                position |-> p]]

RemotePageItems(sizes, k) ==
  LET before == SumSeq(SubSeq(sizes, 1, k - 1))
  IN [n \in 1..sizes[k] |-> RemoteItem(before + n - 1)]

\* the tokens are opaque to the client: the token of page k is k, and the
\* first page is asked for with no token
ListItemsRequest(playlist_id, token) ==
  [api |-> "playlistItems.list", playlistId |-> playlist_id,
   maxResults |-> MaxResultsCap, pageToken |-> token]

ListItemsResponse(sizes, token) ==
  LET k == IF token = NoneInt THEN 1 ELSE token
  IN [kind |-> "ok",
      items |-> RemotePageItems(sizes, k),
      nextPageToken |-> IF k < Len(sizes) THEN k + 1 ELSE NoneInt]

\* lines 217-224
TrackOf(item) ==
  [title |-> item.snippet.title,
   videoId |-> item.snippet.resourceId.videoId,
   artists |-> <<[name |-> item.snippet.videoOwnerChannelTitle]>>,
   position |-> item.snippet.position]

\* lines 227 and 231: the cap is set and the accumulator has reached it
LimitReached(lim, acc) == TruthyInt(lim) /\ Len(acc) >= lim

\* AppendPage without the break of lines 227-228: the whole page is taken
RECURSIVE AppendPage_wholePage(_, _, _)
AppendPage_wholePage(acc, items, lim) ==
  IF items = <<>> THEN acc
  ELSE AppendPage_wholePage(Append(acc, TrackOf(Head(items))), Tail(items), lim)

\* lines 216-228: the inner for loop over one page, with its break
RECURSIVE AppendPage(_, _, _)
AppendPage(acc, items, lim) ==
  IF items = <<>> THEN acc
  ELSE LET acc1 == Append(acc, TrackOf(Head(items)))
       IN IF LimitReached(lim, acc1) THEN acc1
          ELSE AppendPage(acc1, Tail(items), lim)

\* PagingDone that asks again while nothing has been collected
PagingDone_retryEmpty(token, lim, acc) ==
  (token = NoneInt /\ acc # <<>>) \/ LimitReached(lim, acc)

\* PagingDone that also stops at the item count of the metadata
PagingDone_atCount(token, lim, acc) ==
  token = NoneInt \/ LimitReached(lim, acc) \/ Len(acc) >= total_tracks

\* PagingDone without the cap test of line 231
PagingDone_tokenOnly(token, lim, acc) == token = NoneInt

\* line 231: leave the while loop
PagingDone(token, lim, acc) == token = NoneInt \/ LimitReached(lim, acc)

\* lines 234-240
GetPlaylistResult(playlist_id, meta, count, acc) ==
  [kind |-> "return",
   value |-> [id |-> playlist_id,
              title |-> meta.title,
              description |-> meta.description,
              trackCount |-> count,
              tracks |-> acc]]

\* lines 242-244
RetrievalError(cause) ==
  [kind |-> "raise", error |-> "RuntimeError",
   msg |-> "Failed to retrieve playlist", cause |-> cause]

\* the invocations that run side by side
Invocations == {1, 2}

\* an invocation not yet started
IdleInv ==
  [kind |-> "none", pc |-> "idle", queries |-> <<>>, qi |-> 1, item_ids |-> <<>>,
   ii |-> 1, added |-> 0, pages |-> <<>>, limit |-> NoneInt, total |-> 0,
   token |-> NoneInt, resps |-> <<>>, result |-> NoResult]

\* lines 338-340 and 205: the lists an invocation starts with
EmptyFrame ==
  [video_ids |-> <<>>, added_tracks |-> <<>>, failed_queries |-> <<>>, tracks |-> <<>>]

Init ==
  /\ pc = "idle"
  /\ op = "none"
  /\ caller = "tool"
  /\ calls = <<>>
  /\ result = NoResult
  /\ search_queries = <<>>
  /\ qi = 1
  /\ video_ids = <<>>
  /\ added_tracks = <<>>
  /\ failed_queries = <<>>
  /\ item_ids = <<>>
  /\ ii = 1
  /\ added = 0
  /\ add_result = NoResult
  /\ add_calls = <<>>
  /\ remote_pages = <<>>
  /\ limit = NoneInt
  /\ total_tracks = 0
  /\ tracks = <<>>
  /\ next_page_token = NoneInt
  /\ cp_args = NoArgs
  /\ ci = 1
  /\ created_id = None
  /\ up_args = NoArgs
  /\ up_playlist = NoArgs
  /\ remote_exists = TRUE
  /\ del_count = 0
  /\ st_args = NoArgs
  /\ server \in Servers
  /\ tool_name = None
  /\ tool_result = NoResult
  /\ pending = <<>>
  /\ youtube = "service"
  /\ invs = [i \in Invocations |-> IdleInv]
  /\ frames = [i \in Invocations |-> EmptyFrame]

\* the caller invokes search_and_add_to_playlist(playlist_id, queries)
CallSearchAndAdd ==
  /\ pc = "idle"
  /\ \E qs \in SeqsUpTo(Queries, MaxQueries) : search_queries' = qs
  /\ op' = "search_and_add_to_playlist"
  /\ pc' = "sa_loop"
  /\ qi' = 1
  /\ video_ids' = <<>>
  /\ added_tracks' = <<>>
  /\ failed_queries' = <<>>
  /\ UNCHANGED <<caller, calls, result, addVars, gpVars>>
  /\ UNCHANGED <<cpVars, upVars, dpVars, stVars, toolVars>>
  /\ UNCHANGED pending
  /\ UNCHANGED concVars

\* one iteration of the for loop: one search, then classify the query
SearchAndAddStep ==
  /\ pc = "sa_loop"
  /\ qi <= Len(search_queries)
  /\ LET query == search_queries[qi]
         req == SearchRequest(query, 1, "songs")
     IN \E resp \in SearchResponses(req.maxResults) :
          LET r == search_tracks(query, 1, "songs", resp)
              acc == SAClassify([video_ids |-> video_ids,
                                 added_tracks |-> added_tracks,
                                 failed_queries |-> failed_queries], query, r)
          IN /\ calls' = Append(calls, [req |-> req, resp |-> resp])
             /\ video_ids' = acc.video_ids
             /\ added_tracks' = acc.added_tracks
             /\ failed_queries' = acc.failed_queries
             /\ qi' = SANextIndex(qi, r)
  /\ UNCHANGED <<pc, op, caller, result, search_queries, addVars, gpVars>>
  /\ UNCHANGED <<cpVars, upVars, dpVars, stVars, toolVars>>
  /\ pending # <<>>
  /\ pending' = Tail(pending)
  /\ UNCHANGED concVars

\* lines 360-361: the loop is over; call add_playlist_items or go on to return
SearchAndAddAfterLoop ==
  /\ pc = "sa_loop"
  /\ qi > Len(search_queries)
  /\ IF SANeedsBulkAdd(video_ids)
     THEN /\ pc' = "add_loop"
          /\ caller' = "sa"
          /\ item_ids' = video_ids
          /\ ii' = 1
          /\ added' = 0
          /\ add_result' = NoResult
          /\ add_calls' = Append(add_calls, [video_ids |-> video_ids, at |-> Len(calls)])
     ELSE /\ pc' = "sa_return"
          /\ UNCHANGED <<caller, addVars>>
  /\ UNCHANGED <<op, calls, result, saVars, gpVars>>
  /\ UNCHANGED <<cpVars, upVars, dpVars, stVars, toolVars>>
  /\ UNCHANGED pending
  /\ UNCHANGED concVars

\* lines 363-368
SearchAndAddReturn ==
  /\ pc = "sa_return"
  /\ result' = [kind |-> "return",
                value |-> SAResult(video_ids, added_tracks, failed_queries)]
  /\ pc' = "done"
  /\ UNCHANGED <<op, caller, calls, saVars, addVars, gpVars>>
  /\ UNCHANGED <<cpVars, upVars, dpVars, stVars, toolVars>>
  /\ UNCHANGED pending
  /\ UNCHANGED concVars

\* the caller invokes add_playlist_items(playlist_id, video_ids)
CallAddItems ==
  /\ pc = "idle"
  /\ \E ids \in SeqsUpTo(VideoIds, MaxIds) :
       /\ item_ids' = ids
       /\ add_calls' = Append(add_calls, [video_ids |-> ids, at |-> Len(calls)])
  /\ op' = "add_playlist_items"
  /\ caller' = "tool"
  /\ pc' = "add_loop"
  /\ ii' = 1
  /\ added' = 0
  /\ add_result' = NoResult
  /\ UNCHANGED <<calls, result, saVars, gpVars>>
  /\ UNCHANGED <<cpVars, upVars, dpVars, stVars, toolVars>>
  /\ UNCHANGED pending
  /\ UNCHANGED concVars

\* one iteration of the for loop of add_playlist_items: one add-item call,
\* whose failure is caught and logged
AddItemStep ==
  /\ pc = "add_loop"
  /\ ii <= Len(item_ids)
  /\ \E resp \in InsertResponses :
       /\ calls' = Append(calls, [req |-> InsertRequest(PlaylistId, item_ids[ii]),
                                  resp |-> resp])
       /\ added' = AddedAfter(added, resp)
  /\ ii' = ii + 1
  /\ UNCHANGED <<pc, op, caller, result, saVars, item_ids, add_result, add_calls, gpVars>>
  /\ UNCHANGED <<cpVars, upVars, dpVars, stVars, toolVars>>
  /\ pending # <<>>
  /\ pending' = Tail(pending)
  /\ UNCHANGED concVars

\* lines 173-178: the outcome goes to the tool caller, or back to line 361 of
\* search_and_add_to_playlist, which has no handler around the call: a raise
\* would leave search_and_add_to_playlist too
AddItemsReturn ==
  /\ pc = "add_loop"
  /\ ii > Len(item_ids)
  /\ LET r == AddItemsResult(PlaylistId, added, item_ids)
     IN /\ add_result' = r
        /\ IF caller = "tool" \/ r.kind = "raise"
           THEN /\ result' = r
                /\ pc' = "done"
           ELSE /\ pc' = "sa_return"
                /\ UNCHANGED result
  /\ UNCHANGED <<op, caller, calls, saVars, item_ids, ii, added, add_calls, gpVars>>
  /\ UNCHANGED <<cpVars, upVars, dpVars, stVars, toolVars>>
  /\ UNCHANGED pending
  /\ UNCHANGED concVars

\* the caller invokes get_playlist(playlist_id, limit) on a playlist whose
\* items the remote serves in pages
CallGetPlaylist ==
  /\ pc = "idle"
  /\ \E n \in 1..MaxPages : \E sizes \in [1..n -> 0..MaxPageItems] :
       remote_pages' = sizes
  /\ \E lim \in Limits : limit' = lim
  /\ op' = "get_playlist"
  /\ pc' = "gp_meta"
  /\ UNCHANGED <<caller, calls, result, saVars, addVars, total_tracks, tracks,
                 next_page_token>>
  /\ UNCHANGED <<cpVars, upVars, dpVars, stVars, toolVars>>
  /\ UNCHANGED pending
  /\ UNCHANGED concVars

MetaRequest(playlist_id) ==
  [api |-> "playlists.list", part |-> "snippet,contentDetails", id |-> playlist_id]

MetaResponses ==
  {[kind |-> "error", items |-> <<>>], [kind |-> "ok", items |-> <<>>]} \cup
  {[kind |-> "ok",
    items |-> <<[snippet |-> [title |-> "T", description |-> "D"],
                 contentDetails |-> [itemCount |-> c]]>>] :
     c \in 0..(MaxPages * MaxPageItems)}

\* MetaOutcome taking a metadata response without items for an empty playlist
MetaOutcome_emptyOk(resp) ==
  IF resp.kind = "error" THEN RetrievalError("remote error")
  ELSE IF resp.items = <<>> THEN [kind |-> "ok", itemCount |-> 0]
  ELSE [kind |-> "ok", itemCount |-> resp.items[1].contentDetails.itemCount]

\* lines 194-201: what the metadata response leads to; the RuntimeError of
\* line 197 is raised inside the try, so the handler of lines 242-244 wraps it
MetaOutcome(resp) ==
  IF resp.kind = "error" THEN RetrievalError("remote error")
  ELSE IF resp.items = <<>> THEN RetrievalError("Playlist not found")
  ELSE [kind |-> "ok", itemCount |-> resp.items[1].contentDetails.itemCount]

\* PageFailure handing back what was collected so far
PageFailure_partial(acc) ==
  GetPlaylistResult(PlaylistId, [title |-> "T", description |-> "D"], total_tracks, acc)

\* lines 214 and 242-244: a page request that raises ends get_playlist; the
\* accumulator is dropped
PageFailure(acc) == RetrievalError("remote error")

\* lines 190-205: the metadata call
GetPlaylistMeta ==
  /\ pc = "gp_meta"
  /\ \E resp \in MetaResponses :
       /\ calls' = Append(calls, [req |-> MetaRequest(PlaylistId), resp |-> resp])
       /\ LET m == MetaOutcome(resp)
          IN IF m.kind = "raise"
             THEN /\ result' = m
                  /\ pc' = "done"
                  /\ UNCHANGED <<total_tracks, tracks, next_page_token>>
             ELSE /\ total_tracks' = m.itemCount
                  /\ tracks' = <<>>
                  /\ next_page_token' = NoneInt
                  /\ pc' = "gp_loop"
                  /\ UNCHANGED result
  /\ UNCHANGED <<op, caller, saVars, addVars, remote_pages, limit>>
  /\ UNCHANGED <<cpVars, upVars, dpVars, stVars, toolVars>>
  /\ pending # <<>>
  /\ pending' = Tail(pending)
  /\ UNCHANGED concVars

\* lines 207-232: one iteration of the while loop: one page request
GetPlaylistPage ==
  /\ pc = "gp_loop"
  /\ LET req == ListItemsRequest(PlaylistId, next_page_token)
     IN \E resp \in {[kind |-> "error"],
                     ListItemsResponse(remote_pages, next_page_token)} :
          /\ calls' = Append(calls, [req |-> req, resp |-> resp])
          /\ IF resp.kind = "error"
             THEN /\ result' = PageFailure(tracks)
                  /\ pc' = "done"
                  /\ UNCHANGED <<tracks, next_page_token>>
             ELSE /\ tracks' = AppendPage(tracks, resp.items, limit)
                  /\ next_page_token' = resp.nextPageToken
                  /\ pc' = IF PagingDone(resp.nextPageToken, limit, tracks')
                           THEN "gp_return" ELSE "gp_loop"
                  /\ UNCHANGED result
  /\ UNCHANGED <<op, caller, saVars, addVars, remote_pages, limit, total_tracks>>
  /\ UNCHANGED <<cpVars, upVars, dpVars, stVars, toolVars>>
  /\ pending # <<>>
  /\ pending' = Tail(pending)
  /\ UNCHANGED concVars

\* lines 234-240
GetPlaylistReturn ==
  /\ pc = "gp_return"
  /\ result' = GetPlaylistResult(PlaylistId, [title |-> "T", description |-> "D"],
                                 total_tracks, tracks)
  /\ pc' = "done"
  /\ UNCHANGED <<op, caller, calls, saVars, addVars, gpVars>>
  /\ UNCHANGED <<cpVars, upVars, dpVars, stVars, toolVars>>
  /\ UNCHANGED pending
  /\ UNCHANGED concVars

\* ------------------------------------------------------------ create_playlist
Titles == {"T"}
PrivacyArgs == {"PRIVATE", "public"}

\* str.lower() on the privacy values
Lower(str) == IF str = "PRIVATE" THEN "private" ELSE str

\* the video_ids argument: absent (None, the default) or a list
VideoIdArgs ==
  {[given |-> FALSE, ids |-> <<>>]} \cup
  {[given |-> TRUE, ids |-> ids] : ids \in SeqsUpTo(VideoIds, MaxIds)}

\* lines 104-115
CreateRequest(title, description, privacy_status) ==
  [api |-> "playlists.insert",
   title |-> title,
   description |-> description,
   privacyStatus |-> Lower(privacy_status)]

CreateResponses == {[kind |-> "ok", id |-> "PLnew"], [kind |-> "error", id |-> None]}

\* CreateIds never adding the initial ids
CreateIds_none(arg) == <<>>

\* lines 120-121: the ids the loop goes over; None and [] are both falsy
CreateIds(arg) == IF arg.given /\ arg.ids # <<>> THEN arg.ids ELSE <<>>

\* lines 131-133
CreateError ==
  [kind |-> "raise", error |-> "RuntimeError", msg |-> "Failed to create playlist"]

\* CreateAddOutcome with the add-item failure caught, as in add_playlist_items
CreateAddOutcome_swallow(resp) == "continue"

\* line 122: the add-item call has no handler of its own, so its failure
\* leaves the loop for the handler of lines 131-133
CreateAddOutcome(resp) == IF resp.kind = "error" THEN "raise" ELSE "continue"

\* lines 124-129
CreateResult(pid, title) ==
  [kind |-> "return",
   value |-> [playlistId |-> pid,
              title |-> title,
              status |-> "created",
              url |-> <<"https://www.youtube.com/playlist?list=", pid>>]]

\* the caller invokes create_playlist(title, description, privacy_status, video_ids)
CallCreatePlaylist ==
  /\ pc = "idle"
  /\ \E t \in Titles, p \in PrivacyArgs, v \in VideoIdArgs :
       cp_args' = [title |-> t, description |-> "", privacy_status |-> p, video_ids |-> v]
  /\ op' = "create_playlist"
  /\ pc' = "cp_create"
  /\ UNCHANGED <<caller, calls, result, saVars, addVars, gpVars, ci, created_id,
                 upVars, dpVars, stVars, toolVars>>
  /\ UNCHANGED pending
  /\ UNCHANGED concVars

\* lines 104-117: the create call
CreatePlaylistInsert ==
  /\ pc = "cp_create"
  /\ \E resp \in CreateResponses :
       /\ calls' = Append(calls,
            [req |-> CreateRequest(cp_args.title, cp_args.description, cp_args.privacy_status),
             resp |-> resp])
       /\ IF resp.kind = "error"
          THEN /\ result' = CreateError
               /\ pc' = "done"
               /\ UNCHANGED <<ci, created_id>>
          ELSE /\ created_id' = resp.id
               /\ ci' = 1
               /\ pc' = "cp_add"
               /\ UNCHANGED result
  /\ UNCHANGED <<op, caller, saVars, addVars, gpVars, cp_args, upVars, dpVars,
                 stVars, toolVars>>
  /\ pending # <<>>
  /\ pending' = Tail(pending)
  /\ UNCHANGED concVars

\* lines 121-122: one iteration of the loop over the initial ids
CreatePlaylistAddStep ==
  /\ pc = "cp_add"
  /\ ci <= Len(CreateIds(cp_args.video_ids))
  /\ \E resp \in InsertResponses :
       /\ calls' = Append(calls,
            [req |-> InsertRequest(created_id, CreateIds(cp_args.video_ids)[ci]),
             resp |-> resp])
       /\ IF CreateAddOutcome(resp) = "raise"
          THEN /\ result' = CreateError
               /\ pc' = "done"
               /\ UNCHANGED ci
          ELSE /\ ci' = ci + 1
               /\ UNCHANGED <<pc, result>>
  /\ UNCHANGED <<op, caller, saVars, addVars, gpVars, cp_args, created_id, upVars,
                 dpVars, stVars, toolVars>>
  /\ pending # <<>>
  /\ pending' = Tail(pending)
  /\ UNCHANGED concVars

\* lines 124-129
CreatePlaylistReturn ==
  /\ pc = "cp_add"
  /\ ci > Len(CreateIds(cp_args.video_ids))
  /\ result' = CreateResult(created_id, cp_args.title)
  /\ pc' = "done"
  /\ UNCHANGED <<op, caller, calls, saVars, addVars, gpVars, cpVars, upVars,
                 dpVars, stVars, toolVars>>
  /\ UNCHANGED pending
  /\ UNCHANGED concVars

\* ------------------------------------------------------------ update_playlist
\* a title or description argument: None (the default), empty, or a new text
TitleArgs == {None, "", "newT"}
DescriptionArgs == {None, "", "newD"}

\* the playlists the remote can hand back for the id
RemotePlaylists ==
  {[snippet |-> [title |-> "T0", description |-> "D0", channelId |-> "ch",
                 defaultLanguage |-> "en"],
    status |-> [privacyStatus |-> pv]] : pv \in {"private", "public"}}

\* lines 261-264
FetchRequest(pid) ==
  [api |-> "playlists.list", part |-> "snippet,status", id |-> pid]

FetchResponses ==
  {[kind |-> "error", items |-> <<>>], [kind |-> "ok", items |-> <<>>]} \cup
  {[kind |-> "ok", items |-> <<pl>>] : pl \in RemotePlaylists}

\* lines 294-296
UpdateError(cause) ==
  [kind |-> "raise", error |-> "RuntimeError",
   msg |-> "Failed to update playlist", cause |-> cause]

\* UpdatedSnippet testing the title the way it tests the description
UpdatedSnippet_titleNotNone(snippet, title, description) ==
  [[snippet EXCEPT !.title = IF title # None THEN title ELSE @]
     EXCEPT !.description = IF description # None THEN description ELSE @]

\* UpdatedSnippet writing the default "" for a description that was not given
UpdatedSnippet_overwrite(snippet, title, description) ==
  [[snippet EXCEPT !.title = IF Truthy(title) THEN title ELSE @]
     EXCEPT !.description = IF description # None THEN description ELSE ""]

\* lines 270-276: the fetched snippet with the given fields laid over it
UpdatedSnippet(snippet, title, description) ==
  [[snippet EXCEPT !.title = IF Truthy(title) THEN title ELSE @]
     EXCEPT !.description = IF description # None THEN description ELSE @]

\* lines 279-286
UpdateRequest(pid, playlist, title, description) ==
  [api |-> "playlists.update",
   part |-> "snippet,status",
   body |-> [id |-> pid,
             snippet |-> UpdatedSnippet(playlist.snippet, title, description),
             status |-> playlist.status]]

\* the remote answers an update with the resource as written, or fails
UpdateResponses(req) ==
  {[kind |-> "error"], [kind |-> "ok", snippet |-> req.body.snippet]}

\* lines 288-293
UpdateResult(pid, resp) ==
  [kind |-> "return",
   value |-> [status |-> "updated",
              playlistId |-> pid,
              title |-> resp.snippet.title,
              description |-> resp.snippet.description]]

\* the caller invokes update_playlist(playlist_id, title, description)
CallUpdatePlaylist ==
  /\ pc = "idle"
  /\ \E t \in TitleArgs, dsc \in DescriptionArgs :
       up_args' = [title |-> t, description |-> dsc]
  /\ op' = "update_playlist"
  /\ pc' = "up_fetch"
  /\ UNCHANGED <<caller, calls, result, saVars, addVars, gpVars, cpVars, up_playlist,
                 dpVars, stVars, toolVars>>
  /\ UNCHANGED pending
  /\ UNCHANGED concVars

\* FetchOutcome going on with a blank playlist when the fetch names none
FetchOutcome_blank(resp) ==
  IF resp.kind = "error" THEN UpdateError("remote error")
  ELSE IF resp.items = <<>>
  THEN [kind |-> "ok",
        playlist |-> [snippet |-> [title |-> "", description |-> "", channelId |-> "",
                                   defaultLanguage |-> ""],
                      status |-> [privacyStatus |-> "private"]]]
  ELSE [kind |-> "ok", playlist |-> resp.items[1]]

\* lines 261-270: what the fetch leads to; the RuntimeError of line 267 is
\* raised inside the try, so the handler of lines 294-296 wraps it
FetchOutcome(resp) ==
  IF resp.kind = "error" THEN UpdateError("remote error")
  ELSE IF resp.items = <<>> THEN UpdateError("Playlist not found")
  ELSE [kind |-> "ok", playlist |-> resp.items[1]]

\* lines 261-270: read the current playlist
UpdateFetch ==
  /\ pc = "up_fetch"
  /\ \E resp \in FetchResponses :
       /\ calls' = Append(calls, [req |-> FetchRequest(PlaylistId), resp |-> resp])
       /\ LET f == FetchOutcome(resp)
          IN IF f.kind = "raise"
             THEN /\ result' = f
                  /\ pc' = "done"
                  /\ UNCHANGED up_playlist
             ELSE /\ up_playlist' = f.playlist
                  /\ pc' = "up_write"
                  /\ UNCHANGED result
  /\ UNCHANGED <<op, caller, saVars, addVars, gpVars, cpVars, up_args, dpVars,
                 stVars, toolVars>>
  /\ pending # <<>>
  /\ pending' = Tail(pending)
  /\ UNCHANGED concVars

\* lines 272-293: overlay the arguments and write the playlist back
UpdateWrite ==
  /\ pc = "up_write"
  /\ LET req == UpdateRequest(PlaylistId, up_playlist, up_args.title, up_args.description)
     IN \E resp \in UpdateResponses(req) :
          /\ calls' = Append(calls, [req |-> req, resp |-> resp])
          /\ result' = IF resp.kind = "error" THEN UpdateError("remote error")
                       ELSE UpdateResult(PlaylistId, resp)
  /\ pc' = "done"
  /\ UNCHANGED <<op, caller, saVars, addVars, gpVars, cpVars, upVars, dpVars,
                 stVars, toolVars>>
  /\ pending # <<>>
  /\ pending' = Tail(pending)
  /\ UNCHANGED concVars

\* ------------------------------------------------------------ delete_playlist
DeleteRequest(pid) == [api |-> "playlists.delete", id |-> pid]

\* the remote refuses to delete a playlist it does not hold; a delete of one
\* it holds succeeds or fails in transport
DeleteResponses(exists) ==
  IF exists
  THEN {[kind |-> "ok", reason |-> None], [kind |-> "error", reason |-> "transport"]}
  ELSE {[kind |-> "error", reason |-> "notFound"]}

\* DeleteOutcome reporting an already absent playlist as deleted
DeleteOutcome_idempotent(pid, resp) ==
  IF resp.kind = "error" /\ resp.reason # "notFound"
  THEN [kind |-> "raise", error |-> "RuntimeError", msg |-> "Failed to delete playlist"]
  ELSE [kind |-> "return", value |-> [status |-> "deleted", playlistId |-> pid]]

\* lines 248-253
DeleteOutcome(pid, resp) ==
  IF resp.kind = "error"
  THEN [kind |-> "raise", error |-> "RuntimeError", msg |-> "Failed to delete playlist"]
  ELSE [kind |-> "return", value |-> [status |-> "deleted", playlistId |-> pid]]

\* the caller invokes delete_playlist(playlist_id): a first time, on an id the
\* remote holds or not, or again on the same id after the call before returned
CallDeletePlaylist ==
  /\ \/ /\ pc = "idle"
        /\ \E e \in BOOLEAN : remote_exists' = e
     \/ /\ pc \in {"done", "returned"}
        /\ op = "delete_playlist"
        /\ del_count < MaxDeletes
        /\ UNCHANGED remote_exists
  /\ op' = "delete_playlist"
  /\ del_count' = del_count + 1
  /\ result' = NoResult
  /\ tool_result' = NoResult
  /\ pc' = "dp_call"
  /\ UNCHANGED <<caller, calls, saVars, addVars, gpVars, cpVars, upVars, stVars,
                 server, tool_name>>
  /\ UNCHANGED pending
  /\ UNCHANGED concVars

\* lines 248-253: the one delete call
DeletePlaylistStep ==
  /\ pc = "dp_call"
  /\ \E resp \in DeleteResponses(remote_exists) :
       /\ calls' = Append(calls, [req |-> DeleteRequest(PlaylistId), resp |-> resp])
       /\ result' = DeleteOutcome(PlaylistId, resp)
       /\ remote_exists' = (remote_exists /\ resp.kind # "ok")
  /\ pc' = "done"
  /\ UNCHANGED <<op, caller, saVars, addVars, gpVars, cpVars, upVars, del_count,
                 stVars, toolVars>>
  /\ pending # <<>>
  /\ pending' = Tail(pending)
  /\ UNCHANGED concVars

\* -------------------------------------------------------------- search_tracks
\* the filter values of the tool schema
Filters == {"songs", "videos", "albums", "artists", "playlists"}

\* the caller invokes search_tracks(query, limit, filter)
CallSearchTracks ==
  /\ pc = "idle"
  /\ \E q \in Queries, lim \in LimitMin..LimitMax, f \in Filters :
       st_args' = [query |-> q, limit |-> lim, filter |-> f]
  /\ op' = "search_tracks"
  /\ pc' = "st_call"
  /\ UNCHANGED <<caller, calls, result, saVars, addVars, gpVars, cpVars, upVars,
                 dpVars, toolVars>>
  /\ UNCHANGED pending
  /\ UNCHANGED concVars

\* lines 36-81: the one search request and the mapping of its response
SearchTracksStep ==
  /\ pc = "st_call"
  /\ LET req == SearchRequest(st_args.query, st_args.limit, st_args.filter)
     IN \E resp \in SearchResponsesFor(req.type, req.maxResults) :
          /\ calls' = Append(calls, [req |-> req, resp |-> resp])
          /\ result' = search_tracks(st_args.query, st_args.limit, st_args.filter, resp)
  /\ pc' = "done"
  /\ UNCHANGED <<op, caller, saVars, addVars, gpVars, cpVars, upVars, dpVars,
                 stVars, toolVars>>
  /\ pending # <<>>
  /\ pending' = Tail(pending)
  /\ UNCHANGED concVars

\* ------------------------------------------------------ get_library_playlists
\* lines 301-305
LibraryRequest(lim) ==
  [api |-> "playlists.list", mine |-> TRUE, maxResults |-> Min(lim, MaxResultsCap)]

LibraryResponses ==
  {[kind |-> "error", items |-> <<>>], [kind |-> "ok", items |-> <<>>],
   [kind |-> "ok",
    items |-> <<[id |-> "PLa", snippet |-> [title |-> "T0", description |-> "D0"],
                 contentDetails |-> [itemCount |-> 1]]>>]}

\* lines 308-323
LibraryResult(resp) ==
  IF resp.kind = "error"
  THEN [kind |-> "raise", error |-> "RuntimeError", msg |-> "Failed to get library playlists"]
  ELSE [kind |-> "return",
        value |-> [k \in 1..Len(resp.items) |->
                     [playlistId |-> resp.items[k].id,
                      title |-> resp.items[k].snippet.title,
                      description |-> resp.items[k].snippet.description,
                      count |-> resp.items[k].contentDetails.itemCount]]]

\* the caller invokes get_library_playlists(limit)
CallGetLibraryPlaylists ==
  /\ pc = "idle"
  /\ op' = "get_library_playlists"
  /\ pc' = "lib_call"
  /\ UNCHANGED <<caller, calls, result, saVars, addVars, gpVars, cpVars, upVars,
                 dpVars, stVars, toolVars>>
  /\ UNCHANGED pending
  /\ UNCHANGED concVars

\* lines 300-323: the one list request, with the default limit of 25
GetLibraryPlaylistsStep ==
  /\ pc = "lib_call"
  /\ \E resp \in LibraryResponses :
       /\ calls' = Append(calls, [req |-> LibraryRequest(25), resp |-> resp])
       /\ result' = LibraryResult(resp)
  /\ pc' = "done"
  /\ UNCHANGED <<op, caller, saVars, addVars, gpVars, cpVars, upVars, dpVars,
                 stVars, toolVars>>
  /\ pending # <<>>
  /\ pending' = Tail(pending)
  /\ UNCHANGED concVars

\* ------------------------------------------------------------------ call_tool
\* the branches of call_tool: tool name -> client method, per server module
Tools(srv) ==
  IF srv = "stdio"
  THEN [search_youtube_music |-> "search_tracks",
        create_youtube_music_playlist |-> "create_playlist",
        add_tracks_to_playlist |-> "add_playlist_items",
        search_and_add_to_playlist |-> "search_and_add_to_playlist",
        get_playlist_details |-> "get_playlist",
        get_library_playlists |-> "get_library_playlists"]
  ELSE [search_youtube_music |-> "search_tracks",
        create_playlist |-> "create_playlist",
        add_to_playlist |-> "add_playlist_items",
        get_my_playlists |-> "get_library_playlists",
        search_and_add |-> "search_and_add_to_playlist",
        get_playlist_details |-> "get_playlist",
        delete_playlist |-> "delete_playlist"]

ToolNames(srv) == DOMAIN Tools(srv)

\* the names a client may send: those of either server, and one of neither
AnyToolNames == ToolNames("stdio") \cup ToolNames("remote") \cup {"no_such_tool"}

\* tools whose handler reads a required argument with arguments[...]
ToolsWithRequiredArgs(srv) ==
  {n \in ToolNames(srv) : Tools(srv)[n] # "get_library_playlists"}

\* TextContent(type="text", text=...); the text is kept as its parts
TextContent(parts) == [type |-> "text", text |-> parts]

\* the except branch of call_tool: f"Error: {str(e)}"
ErrorText(e) == TextContent(<<"Error: ", e.msg>>)

\* the text of a successful call, by client method
SuccessText(srv, method, value) ==
  CASE method = "search_tracks" ->
         IF value = <<>> THEN TextContent(<<"No results found.">>)
         ELSE TextContent(<<"Found ", Len(value), " results:">>)
    [] method = "create_playlist" ->
         TextContent(<<IF srv = "stdio" THEN "Created playlist: " ELSE "Created: ",
                       value.title, value.playlistId, value.url>>)
    [] method = "add_playlist_items" ->
         TextContent(<<IF srv = "stdio" THEN "Successfully added " ELSE "Added ",
                       value.addedCount>>)
    [] method = "search_and_add_to_playlist" ->
         TextContent(<<"Added ", value.addedCount, value.addedTracks, value.failedQueries>>)
    [] method = "get_playlist" ->
         TextContent(<<"Playlist: ", value.title, value.trackCount, value.tracks>>)
    [] method = "get_library_playlists" ->
         IF value = <<>>
         THEN TextContent(<<IF srv = "stdio" THEN "No playlists found in your library."
                            ELSE "No playlists found.">>)
         ELSE TextContent(<<IF srv = "stdio" THEN "Found " ELSE "Your playlists (",
                            Len(value)>>)
    [] method = "delete_playlist" ->
         TextContent(<<"Deleted playlist: ", value.playlistId>>)

\* what call_tool returns once the client method is over
ToolResult(srv, method, r) ==
  IF r.kind = "raise" THEN ErrorText(r) ELSE SuccessText(srv, method, r.value)

\* the else branch of call_tool: server.py raises ValueError into its own
\* handler, server_remote.py returns the text directly
UnknownToolResult(srv, name) ==
  IF srv = "stdio"
  THEN ErrorText([kind |-> "raise", error |-> "ValueError",
                  msg |-> <<"Unknown tool: ", name>>])
  ELSE TextContent(<<"Unknown tool: ", name>>)

\* call_tool returns what the client method it awaited gave or raised
ToolReturn ==
  /\ pc = "done"
  /\ \E n \in ToolNames(server) :
       /\ Tools(server)[n] = op
       /\ tool_name' = n
  /\ tool_result' = ToolResult(server, op, result)
  /\ pc' = "returned"
  /\ UNCHANGED <<op, caller, calls, result, saVars, addVars, gpVars, cpVars, upVars,
                 dpVars, stVars, server>>
  /\ UNCHANGED pending
  /\ UNCHANGED concVars

\* call_tool with a name that matches no branch
ToolUnknown ==
  /\ pc = "idle"
  /\ \E n \in AnyToolNames \ ToolNames(server) :
       /\ tool_name' = n
       /\ tool_result' = UnknownToolResult(server, n)
  /\ op' = "unknown_tool"
  /\ pc' = "returned"
  /\ UNCHANGED <<caller, calls, result, saVars, addVars, gpVars, cpVars, upVars,
                 dpVars, stVars, server>>
  /\ UNCHANGED pending
  /\ UNCHANGED concVars

\* call_tool with a required argument missing: arguments[...] raises KeyError
\* inside the try, before the client method is called
ToolMissingArgument ==
  /\ pc = "idle"
  /\ \E n \in ToolsWithRequiredArgs(server) : tool_name' = n
  /\ op' = "missing_argument"
  /\ tool_result' = ErrorText([kind |-> "raise", error |-> "KeyError",
                               msg |-> "missing argument"])
  /\ pc' = "returned"
  /\ UNCHANGED <<caller, calls, result, saVars, addVars, gpVars, cpVars, upVars,
                 dpVars, stVars, server>>
  /\ UNCHANGED pending
  /\ UNCHANGED concVars

\* ------------------------------------------------------- the remote requests
\* LoopRequests handing all the remaining requests of a loop out together
LoopRequests_gather(reqs, i) == SubSeq(reqs, i, Len(reqs))

\* lines 166-168 (and 120-122, 342-344): an iteration of a loop issues the
\* request of its own element and waits for the answer
LoopRequests(reqs, i) == <<reqs[i]>>

\* the requests the invocation issues at its position
RequestsDue ==
  CASE pc = "sa_loop" /\ qi <= Len(search_queries) ->
         LoopRequests([k \in 1..Len(search_queries) |->
                         SearchRequest(search_queries[k], 1, "songs")], qi)
    [] pc = "add_loop" /\ ii <= Len(item_ids) ->
         LoopRequests([k \in 1..Len(item_ids) |->
                         InsertRequest(PlaylistId, item_ids[k])], ii)
    [] pc = "cp_add" /\ ci <= Len(CreateIds(cp_args.video_ids)) ->
         LoopRequests([k \in 1..Len(CreateIds(cp_args.video_ids)) |->
                         InsertRequest(created_id, CreateIds(cp_args.video_ids)[k])], ci)
    [] pc = "gp_meta" -> <<MetaRequest(PlaylistId)>>
    [] pc = "gp_loop" -> <<ListItemsRequest(PlaylistId, next_page_token)>>
    [] pc = "cp_create" ->
         <<CreateRequest(cp_args.title, cp_args.description, cp_args.privacy_status)>>
    [] pc = "up_fetch" -> <<FetchRequest(PlaylistId)>>
    [] pc = "up_write" ->
         <<UpdateRequest(PlaylistId, up_playlist, up_args.title, up_args.description)>>
    [] pc = "dp_call" -> <<DeleteRequest(PlaylistId)>>
    [] pc = "st_call" -> <<SearchRequest(st_args.query, st_args.limit, st_args.filter)>>
    [] pc = "lib_call" -> <<LibraryRequest(25)>>
    [] OTHER -> <<>>

\* request.execute(): the request goes out; the invocation stands still until
\* the answer is in
IssueRequest ==
  /\ pending = <<>>
  /\ RequestsDue # <<>>
  /\ pending' = RequestsDue
  /\ UNCHANGED <<pc, op, caller, calls, result, saVars, addVars, gpVars, cpVars,
                 upVars, dpVars, stVars, toolVars>>
  /\ UNCHANGED concVars

Next ==
  \/ IssueRequest
  \/ CallSearchAndAdd
  \/ SearchAndAddStep
  \/ SearchAndAddAfterLoop
  \/ SearchAndAddReturn
  \/ CallAddItems
  \/ AddItemStep
  \/ AddItemsReturn
  \/ CallGetPlaylist
  \/ GetPlaylistMeta
  \/ GetPlaylistPage
  \/ GetPlaylistReturn
  \/ CallCreatePlaylist
  \/ CreatePlaylistInsert
  \/ CreatePlaylistAddStep
  \/ CreatePlaylistReturn
  \/ CallUpdatePlaylist
  \/ UpdateFetch
  \/ UpdateWrite
  \/ CallDeletePlaylist
  \/ DeletePlaylistStep
  \/ CallSearchTracks
  \/ SearchTracksStep
  \/ CallGetLibraryPlaylists
  \/ GetLibraryPlaylistsStep
  \/ ToolReturn
  \/ ToolUnknown
  \/ ToolMissingArgument

Spec == Init /\ [][Next]_vars

\* a started get_playlist runs on: execute() returns or raises, and the
\* coroutine is driven to its end
GetPlaylistRuns ==
  /\ WF_vars(pc \in {"gp_meta", "gp_loop"} /\ IssueRequest)
  /\ WF_vars(GetPlaylistMeta)
  /\ WF_vars(GetPlaylistPage)
  /\ WF_vars(GetPlaylistReturn)

SpecFair == Spec /\ GetPlaylistRuns

\* ------------------------------------------ two invocations side by side
\* Two tool invocations on the one client object, interleaved at their remote
\* calls. Each works on a playlist and on queries of its own.
ConcQuery(i) == IF i = 1 THEN "neu" ELSE "can music"
ConcPlaylist(i) == IF i = 1 THEN "PL1" ELSE "PL2"
ConcVideo(i) == IF i = 1 THEN "v1" ELSE "v2"
ConcLimits == {NoneInt, LimitMin}

\* the remote finds for the query of invocation i the video ConcVideo(i), an
\* item without a video id, or nothing, or fails
ConcSearchResponses(i, maxResults) ==
  {r \in SearchResponses(maxResults) :
     \A k \in 1..Len(r.items) : r.items[k].id.videoId \in {ConcVideo(i), None}}

\* the stdio server holds the one client object
InitConc == Init /\ server = "stdio"

\* the items of the playlist of invocation i carry positions of their own
ConcBase(i) == (i - 1) * 100

ConcListItemsResponse(i, sizes, token) ==
  [ListItemsResponse(sizes, token) EXCEPT
     !.items = [n \in DOMAIN @ |-> RemoteItem(ConcBase(i) + @[n].snippet.position)]]

\* the metadata the remote holds for the playlist of an invocation
ConcMetaResponses(sizes) ==
  {r \in MetaResponses :
     r.items # <<>> => r.items[1].contentDetails.itemCount = SumSeq(sizes)}

\* FrameOf keeping the lists on the client object, which the invocations share
FrameOf_shared(i) == 1

\* lines 338-340 and 205: the lists are locals of the call, so every
\* invocation has a frame of its own
FrameOf(i) == i

\* the lists invocation i works on
Accumulators(i) == frames[FrameOf(i)]

\* the caller invokes search_and_add_to_playlist; lines 338-340
ConcCallSearchAndAdd(i) ==
  /\ invs[i].pc = "idle"
  /\ \E n \in 0..MaxConcQueries :
       invs' = [invs EXCEPT ![i] = [IdleInv EXCEPT !.kind = "sa", !.pc = "sa_loop",
                                      !.queries = [k \in 1..n |-> ConcQuery(i)]]]
  /\ frames' = [frames EXCEPT ![FrameOf(i)] =
                  [@ EXCEPT !.video_ids = <<>>, !.added_tracks = <<>>,
                            !.failed_queries = <<>>]]
  /\ UNCHANGED <<youtube, seqVars>>

\* lines 342-358
ConcSearchStep(i) ==
  /\ invs[i].pc = "sa_loop"
  /\ invs[i].qi <= Len(invs[i].queries)
  /\ LET v == invs[i]
         f == Accumulators(i)
         query == v.queries[v.qi]
         req == SearchRequest(query, 1, "songs")
     IN \E resp \in ConcSearchResponses(i, req.maxResults) :
          LET r == search_tracks(query, 1, "songs", resp)
              acc == SAClassify([video_ids |-> f.video_ids,
                                 added_tracks |-> f.added_tracks,
                                 failed_queries |-> f.failed_queries], query, r)
          IN /\ frames' = [frames EXCEPT ![FrameOf(i)] =
                             [@ EXCEPT !.video_ids = acc.video_ids,
                                       !.added_tracks = acc.added_tracks,
                                       !.failed_queries = acc.failed_queries]]
             /\ invs' = [invs EXCEPT ![i] = [v EXCEPT !.qi = SANextIndex(v.qi, r),
                                                      !.resps = Append(@, resp)]]
  /\ UNCHANGED <<youtube, seqVars>>

\* lines 360-361
ConcAfterLoop(i) ==
  /\ invs[i].pc = "sa_loop"
  /\ invs[i].qi > Len(invs[i].queries)
  /\ invs' = [invs EXCEPT ![i] =
                IF SANeedsBulkAdd(Accumulators(i).video_ids)
                THEN [@ EXCEPT !.pc = "add_loop",
                               !.item_ids = Accumulators(i).video_ids,
                               !.ii = 1, !.added = 0]
                ELSE [@ EXCEPT !.pc = "sa_return"]]
  /\ UNCHANGED <<youtube, frames, seqVars>>

\* lines 166-171
ConcAddStep(i) ==
  /\ invs[i].pc = "add_loop"
  /\ invs[i].ii <= Len(invs[i].item_ids)
  /\ \E resp \in InsertResponses :
       invs' = [invs EXCEPT ![i] = [@ EXCEPT !.added = AddedAfter(@, resp),
                                             !.ii = @ + 1,
                                             !.resps = Append(@, resp)]]
  /\ UNCHANGED <<youtube, frames, seqVars>>

\* lines 173-182
ConcAddReturn(i) ==
  /\ invs[i].pc = "add_loop"
  /\ invs[i].ii > Len(invs[i].item_ids)
  /\ LET r == AddItemsResult(ConcPlaylist(i), invs[i].added, invs[i].item_ids)
     IN invs' = [invs EXCEPT ![i] =
                   IF r.kind = "raise" THEN [@ EXCEPT !.pc = "done", !.result = r]
                   ELSE [@ EXCEPT !.pc = "sa_return"]]
  /\ UNCHANGED <<youtube, frames, seqVars>>

\* lines 363-368
ConcSearchAndAddReturn(i) ==
  /\ invs[i].pc = "sa_return"
  /\ LET f == Accumulators(i)
     IN invs' = [invs EXCEPT ![i] =
                   [@ EXCEPT !.pc = "done",
                             !.result = [kind |-> "return",
                                         value |-> SAResult(f.video_ids, f.added_tracks,
                                                            f.failed_queries)]]]
  /\ UNCHANGED <<youtube, frames, seqVars>>

\* the caller invokes get_playlist(playlist_id, limit)
ConcCallGetPlaylist(i) ==
  /\ invs[i].pc = "idle"
  /\ \E n \in 1..MaxConcPages, lim \in ConcLimits :
       invs' = [invs EXCEPT ![i] = [IdleInv EXCEPT !.kind = "gp", !.pc = "gp_meta",
                                      !.pages = [k \in 1..n |-> MaxPageItems],
                                      !.limit = lim]]
  /\ UNCHANGED <<youtube, frames, seqVars>>

\* lines 190-205
ConcMeta(i) ==
  /\ invs[i].pc = "gp_meta"
  /\ \E resp \in ConcMetaResponses(invs[i].pages) :
       LET m == MetaOutcome(resp)
       IN IF m.kind = "raise"
          THEN /\ invs' = [invs EXCEPT ![i] = [@ EXCEPT !.pc = "done", !.result = m,
                                                        !.resps = Append(@, resp)]]
               /\ UNCHANGED frames
          ELSE /\ invs' = [invs EXCEPT ![i] = [@ EXCEPT !.pc = "gp_loop",
                                                        !.total = m.itemCount,
                                                        !.token = NoneInt,
                                                        !.resps = Append(@, resp)]]
               /\ frames' = [frames EXCEPT ![FrameOf(i)] = [@ EXCEPT !.tracks = <<>>]]
  /\ UNCHANGED <<youtube, seqVars>>

\* lines 207-232
ConcPage(i) ==
  /\ invs[i].pc = "gp_loop"
  /\ LET v == invs[i]
     IN \E resp \in {[kind |-> "error"], ConcListItemsResponse(i, v.pages, v.token)} :
          IF resp.kind = "error"
          THEN /\ invs' = [invs EXCEPT ![i] =
                             [@ EXCEPT !.pc = "done",
                                       !.result = PageFailure(Accumulators(i).tracks),
                                       !.resps = Append(@, resp)]]
               /\ UNCHANGED frames
          ELSE LET acc == AppendPage(Accumulators(i).tracks, resp.items, v.limit)
               IN /\ frames' = [frames EXCEPT ![FrameOf(i)] = [@ EXCEPT !.tracks = acc]]
                  /\ invs' = [invs EXCEPT ![i] =
                                [@ EXCEPT !.token = resp.nextPageToken,
                                          !.pc = IF PagingDone(resp.nextPageToken, v.limit, acc)
                                                 THEN "gp_return" ELSE "gp_loop",
                                          !.resps = Append(@, resp)]]
  /\ UNCHANGED <<youtube, seqVars>>

\* lines 234-240
ConcGetPlaylistReturn(i) ==
  /\ invs[i].pc = "gp_return"
  /\ invs' = [invs EXCEPT ![i] =
                [@ EXCEPT !.pc = "done",
                          !.result = GetPlaylistResult(ConcPlaylist(i),
                                       [title |-> "T", description |-> "D"],
                                       invs[i].total, Accumulators(i).tracks)]]
  /\ UNCHANGED <<youtube, frames, seqVars>>

NextConc ==
  \E i \in Invocations :
    \/ ConcCallSearchAndAdd(i)
    \/ ConcSearchStep(i)
    \/ ConcAfterLoop(i)
    \/ ConcAddStep(i)
    \/ ConcAddReturn(i)
    \/ ConcSearchAndAddReturn(i)
    \/ ConcCallGetPlaylist(i)
    \/ ConcMeta(i)
    \/ ConcPage(i)
    \/ ConcGetPlaylistReturn(i)

SpecConc == InitConc /\ [][NextConc]_vars


\* ===================================================================== claims
\* the remote requests of one endpoint, oldest first
CallsOf(api) == SelectSeq(calls, LAMBDA c : c.req.api = api)
SearchCalls == CallsOf("search.list")
InsertCalls == CallsOf("playlistItems.insert")
PageCalls == CallsOf("playlistItems.list")

SADone == pc = "done" /\ op = "search_and_add_to_playlist"
AddDone == pc = "done" /\ op = "add_playlist_items"
GPDone == pc = "done" /\ op = "get_playlist"

\* the elements of s at the indices k with keep[k] = b, in the order of s
RECURSIVE Pick(_, _, _)
Pick(s, keep, b) ==
  IF s = <<>> THEN <<>>
  ELSE LET rest == Pick(Tail(s), Tail(keep), b)
       IN IF Head(keep) = b THEN <<Head(s)>> \o rest ELSE rest

\* qs splits, position by position, into the subsequences a and f
IsPartitionInOrder(qs, a, f) ==
  \E keep \in [1..Len(qs) -> BOOLEAN] :
    /\ Pick(qs, keep, TRUE) = a
    /\ Pick(qs, keep, FALSE) = f

QueriesOf(atracks) == [k \in 1..Len(atracks) |-> atracks[k].query]
VideoIdsOf(atracks) == [k \in 1..Len(atracks) |-> atracks[k].videoId]

\* C1: the result of search_and_add_to_playlist partitions the query list:
\* len(addedTracks) + len(failedQueries) = len(queries), every position of the
\* query list goes to exactly one of the two lists, and each list keeps the
\* input order.
C1_Partition ==
  SADone =>
    /\ result.kind = "return"
    /\ Len(result.value.addedTracks) + Len(result.value.failedQueries)
         = Len(search_queries)
    /\ IsPartitionInOrder(search_queries,
                          QueriesOf(result.value.addedTracks),
                          result.value.failedQueries)

C1_Witness ==
  /\ SADone
  /\ Len(search_queries) = 3
  /\ Len(result.value.addedTracks) >= 1
  /\ Len(result.value.failedQueries) >= 1
  /\ \E k \in 1..Len(SearchCalls) : SearchCalls[k].resp.kind = "error"

\* C2: in every result of search_and_add_to_playlist addedCount is the length
\* of addedTracks, whatever the searches and the add-item calls did.
C2_CountIsLen ==
  SADone => /\ result.kind = "return"
            /\ result.value.addedCount = Len(result.value.addedTracks)

C2_Witness ==
  /\ SADone
  /\ result.value.addedCount >= 2
  /\ Len(result.value.failedQueries) >= 1
  /\ \E k \in 1..Len(InsertCalls) : InsertCalls[k].resp.kind = "error"

\* C3: a query whose search raised is in failedQueries, and the invocation
\* never ends by raising: it returns a result with status completed whatever
\* searches and add-item calls failed.
C3_NoEscape ==
  /\ op = "search_and_add_to_playlist" => result.kind # "raise"
  /\ SADone =>
       /\ result.kind = "return"
       /\ result.value.status = "completed"
       /\ \A k \in 1..Len(SearchCalls) :
            SearchCalls[k].resp.kind = "error" =>
              \E j \in 1..Len(result.value.failedQueries) :
                result.value.failedQueries[j] = search_queries[k]

C3_Witness ==
  /\ SADone
  /\ \E k \in 1..Len(SearchCalls) : SearchCalls[k].resp.kind = "error"
  /\ \E k \in 1..Len(InsertCalls) : InsertCalls[k].resp.kind = "error"

\* the three failure cases, read off the raw response of the search request
FailedOutcome(resp) ==
  \/ resp.kind = "error"
  \/ resp.items = <<>>
  \/ resp.items[1].id.videoId = None

\* the accumulators after the first n queries, from the raw responses
RECURSIVE ExpectedFailed(_)
ExpectedFailed(n) ==
  IF n = 0 THEN <<>>
  ELSE IF FailedOutcome(SearchCalls[n].resp)
       THEN Append(ExpectedFailed(n - 1), search_queries[n])
       ELSE ExpectedFailed(n - 1)

RECURSIVE ExpectedAdded(_)
ExpectedAdded(n) ==
  IF n = 0 THEN <<>>
  ELSE IF FailedOutcome(SearchCalls[n].resp)
       THEN ExpectedAdded(n - 1)
       ELSE Append(ExpectedAdded(n - 1),
                   [query |-> search_queries[n],
                    matched |-> SearchCalls[n].resp.items[1].snippet.title,
                    artists |-> <<SearchCalls[n].resp.items[1].snippet.channelTitle>>,
                    videoId |-> SearchCalls[n].resp.items[1].id.videoId])

\* C4: after each query, failed_queries holds exactly the queries whose search
\* raised, returned nothing or returned a top result without id, and for every
\* other query the pending-add list got the top result's id and addedTracks
\* the record {query, title, artist names, videoId} with that id.
C4_Classification ==
  (op = "search_and_add_to_playlist" /\ Len(SearchCalls) = qi - 1) =>
    /\ failed_queries = ExpectedFailed(qi - 1)
    /\ added_tracks = ExpectedAdded(qi - 1)
    /\ video_ids = VideoIdsOf(added_tracks)
    /\ SADone => /\ result.value.failedQueries = failed_queries
                 /\ result.value.addedTracks = added_tracks

C4_Witness ==
  /\ SADone
  /\ Len(search_queries) = 3
  /\ SearchCalls[1].resp.kind = "ok" /\ SearchCalls[1].resp.items # <<>>
  /\ SearchCalls[1].resp.items[1].id.videoId = None
  /\ SearchCalls[2].resp.kind = "ok" /\ SearchCalls[2].resp.items = <<>>
  /\ ~FailedOutcome(SearchCalls[3].resp)
  /\ Len(result.value.addedTracks) = 1

\* C5: search_and_add_to_playlist calls add_playlist_items once when a query
\* resolved and not at all when none did, only after the search of the last
\* query, with the videoIds of addedTracks in the order resolved; every
\* add-item request comes after every search request.
C5_OneBulkAdd ==
  /\ op = "search_and_add_to_playlist" =>
       /\ Len(add_calls) <= 1
       /\ \A k \in 1..Len(add_calls) :
            /\ add_calls[k].at = Len(search_queries)
            /\ Len(SearchCalls) = Len(search_queries)
            /\ add_calls[k].video_ids = VideoIdsOf(added_tracks)
            /\ add_calls[k].video_ids # <<>>
       /\ \A i \in 1..Len(calls) : \A j \in 1..Len(calls) :
            (calls[i].req.api = "playlistItems.insert" /\ calls[j].req.api = "search.list")
              => j < i
       /\ InsertCalls # <<>> => Len(add_calls) = 1
  /\ SADone =>
       /\ Len(add_calls) = IF result.value.addedTracks # <<>> THEN 1 ELSE 0
       /\ [k \in 1..Len(InsertCalls) |-> InsertCalls[k].req.videoId]
            = VideoIdsOf(result.value.addedTracks)

C5_Witness ==
  /\ SADone
  /\ Len(add_calls) = 1
  /\ Len(add_calls[1].video_ids) = 2
  /\ add_calls[1].video_ids[1] # add_calls[1].video_ids[2]
  /\ Len(result.value.failedQueries) = 1

\* the number of queries whose search resolved, from the raw responses
RECURSIVE ResolvedCount(_)
ResolvedCount(n) ==
  IF n = 0 THEN 0
  ELSE ResolvedCount(n - 1) + (IF FailedOutcome(SearchCalls[n].resp) THEN 0 ELSE 1)

\* C6: addedCount is the number of resolved matches, not of confirmed
\* additions: the result is fixed by the search outcomes alone, and failed
\* add-item calls change neither addedCount nor addedTracks nor raise.
C6_Optimistic ==
  SADone =>
    /\ result.kind = "return"
    /\ result.value.addedCount = ResolvedCount(Len(search_queries))
    /\ result.value.addedCount = Len(video_ids)
    /\ result.value.addedTracks = ExpectedAdded(Len(search_queries))

C6_Witness ==
  /\ SADone
  /\ add_result.kind = "return"
  /\ add_result.value.addedCount < result.value.addedCount
  /\ result.value.addedCount = 2

\* the number of add-item requests among the first n that succeeded
RECURSIVE OkInserts(_)
OkInserts(n) ==
  IF n = 0 THEN 0
  ELSE OkInserts(n - 1) + (IF InsertCalls[n].resp.kind = "ok" THEN 1 ELSE 0)

C8_RaisesOnRemoteFailure ==
  (AddDone /\ \E k \in 1..Len(InsertCalls) : InsertCalls[k].resp.kind = "error")
    => /\ result.kind = "raise"
       /\ result.error = "RuntimeError"
       /\ result.msg = "Failed to add tracks"

\* the tracks of the pages fetched so far, in response order
RECURSIVE FetchedTracks(_)
FetchedTracks(n) ==
  IF n = 0 THEN <<>>
  ELSE FetchedTracks(n - 1) \o
       [k \in 1..Len(PageCalls[n].resp.items) |-> TrackOf(PageCalls[n].resp.items[k])]

\* C9: with no cap get_playlist requests all N pages, the first with no token
\* and each further one with the token of the page before, until a page has
\* no token; the tracks returned are the pages' items in response order, as
\* many as the pages hold together.
C9_AllPages ==
  (GPDone /\ result.kind = "return" /\ ~TruthyInt(limit)) =>
    /\ Len(PageCalls) = Len(remote_pages)
    /\ PageCalls[1].req.pageToken = NoneInt
    /\ \A k \in 2..Len(PageCalls) :
         /\ PageCalls[k - 1].resp.nextPageToken # NoneInt
         /\ PageCalls[k].req.pageToken = PageCalls[k - 1].resp.nextPageToken
    /\ PageCalls[Len(PageCalls)].resp.nextPageToken = NoneInt
    /\ result.value.tracks = FetchedTracks(Len(PageCalls))
    /\ Len(result.value.tracks) = SumSeq(remote_pages)
    /\ \A k \in 1..Len(result.value.tracks) : result.value.tracks[k].position = k - 1

C9_Witness ==
  /\ GPDone
  /\ result.kind = "return"
  /\ limit = NoneInt
  /\ Len(remote_pages) = 3
  /\ remote_pages[1] = 2 /\ remote_pages[2] = 0 /\ remote_pages[3] = 1
  /\ Len(result.value.tracks) = 3
  /\ result.value.trackCount < 3

\* C10: with a cap, get_playlist issues a page request only while the
\* accumulator is below the cap, and once a page brings the accumulator to the
\* cap it leaves the loop, also when that page carried a continuation token.
C10_StopAtCap ==
  [][(op = "get_playlist" /\ TruthyInt(limit) /\ Len(PageCalls') = Len(PageCalls) + 1)
       => /\ Len(tracks) < limit
          /\ (PageCalls'[Len(PageCalls')].resp.kind = "ok" /\ Len(tracks') >= limit)
               => pc' = "gp_return"]_vars

C10_Witness ==
  /\ GPDone
  /\ result.kind = "return"
  /\ TruthyInt(limit)
  /\ Len(result.value.tracks) = limit
  /\ next_page_token # NoneInt
  /\ Len(PageCalls) = 2
  /\ Len(remote_pages) = 3

MetaCalls == CallsOf("playlists.list")

\* C11: get_playlist is all-or-nothing: when a page request fails, on the
\* first page or after pages that were fetched, it raises the retrieval error
\* and hands no track to the caller.
C11_AllOrNothing ==
  (GPDone /\ \E k \in 1..Len(PageCalls) : PageCalls[k].resp.kind = "error") =>
    /\ result.kind = "raise"
    /\ result.error = "RuntimeError"
    /\ result.msg = "Failed to retrieve playlist"
    /\ PageCalls[Len(PageCalls)].resp.kind = "error"

C11_Witness ==
  /\ GPDone
  /\ Len(PageCalls) = 3
  /\ PageCalls[3].resp.kind = "error"
  /\ Len(tracks) >= 2
  /\ result.kind = "raise"

\* C12: get_playlist issues one metadata request, before any page request, and
\* when the metadata names no playlist it raises with the not-found cause and
\* issues no page request.
C12_MetaFirst ==
  op = "get_playlist" =>
    /\ Len(MetaCalls) <= 1
    /\ calls # <<>> => calls[1].req.api = "playlists.list"
    /\ (MetaCalls # <<>> /\ MetaCalls[1].resp.kind = "ok" /\ MetaCalls[1].resp.items = <<>>) =>
         /\ PageCalls = <<>>
         /\ pc \in {"done", "returned"}
         /\ result.kind = "raise"
         /\ result.cause = "Playlist not found"

C12_Witness ==
  /\ GPDone
  /\ Len(calls) = 1
  /\ calls[1].resp.kind = "ok"
  /\ calls[1].resp.items = <<>>
  /\ result.kind = "raise"

CPDone == pc = "done" /\ op = "create_playlist"
CreateCalls == CallsOf("playlists.insert")

C14_Prefix ==
  CPDone =>
    /\ (\E k \in 1..Len(calls) : calls[k].resp.kind = "error") =>
         /\ result = [kind |-> "raise", error |-> "RuntimeError",
                      msg |-> "Failed to create playlist"]
         /\ calls[Len(calls)].resp.kind = "error"
    /\ calls[1].resp.kind = "error" => Len(calls) = 1
    /\ [k \in 1..Len(InsertCalls) |-> InsertCalls[k].req.videoId]
         = SubSeq(cp_args.video_ids.ids, 1, Len(InsertCalls))
    /\ \A k \in 1..(Len(InsertCalls) - 1) : InsertCalls[k].resp.kind = "ok"

C14_Witness ==
  /\ CPDone
  /\ Len(cp_args.video_ids.ids) = 3
  /\ Len(InsertCalls) = 2
  /\ InsertCalls[1].resp.kind = "ok"
  /\ InsertCalls[2].resp.kind = "error"
  /\ result.kind = "raise"

UPDone == pc = "done" /\ op = "update_playlist"
WriteCalls == CallsOf("playlists.update")

\* C15: update_playlist writes back the snippet it fetched with only the
\* given fields laid over it: the title when a (non-empty) title is given, the
\* description when a description is given; every other snippet field and the
\* privacy status go back as fetched.
C15_Overlay ==
  (op = "update_playlist" /\ WriteCalls # <<>>) =>
    LET fetched == calls[1].resp.items[1]
        body == WriteCalls[1].req.body
    IN /\ Len(WriteCalls) = 1
       /\ calls[1].req.api = "playlists.list"
       /\ body.id = PlaylistId
       /\ body.status = fetched.status
       /\ DOMAIN body.snippet = DOMAIN fetched.snippet
       /\ \A f \in DOMAIN fetched.snippet \ {"title", "description"} :
            body.snippet[f] = fetched.snippet[f]
       /\ body.snippet.title =
            IF up_args.title \in {None, ""} THEN fetched.snippet.title ELSE up_args.title
       /\ body.snippet.description =
            IF up_args.description = None THEN fetched.snippet.description
            ELSE up_args.description

C15_Witness ==
  /\ UPDone
  /\ result.kind = "return"
  /\ up_args.title = "newT"
  /\ up_args.description = None
  /\ WriteCalls[1].req.body.snippet.title = "newT"
  /\ WriteCalls[1].req.body.snippet.description = "D0"
  /\ WriteCalls[1].req.body.status.privacyStatus = "public"

DPDone == pc = "done" /\ op = "delete_playlist"
DeleteCalls == CallsOf("playlists.delete")

\* C16: delete_playlist issues one delete request per invocation and is not
\* idempotent: on an id the remote does not hold, or on one deleted by an
\* earlier invocation, it raises the delete error and never returns the
\* deleted status.
C16_NotIdempotent ==
  op = "delete_playlist" =>
    /\ Len(DeleteCalls) = IF pc = "dp_call" THEN del_count - 1 ELSE del_count
    /\ Len(calls) = Len(DeleteCalls)
    /\ DPDone =>
         LET last == DeleteCalls[Len(DeleteCalls)]
         IN /\ last.resp.kind = "error" =>
                 result = [kind |-> "raise", error |-> "RuntimeError",
                           msg |-> "Failed to delete playlist"]
            /\ result.kind = "return" =>
                 /\ last.resp.kind = "ok"
                 /\ result.value.status = "deleted"
                 /\ \A k \in 1..(Len(DeleteCalls) - 1) : DeleteCalls[k].resp.kind # "ok"
            /\ (last.resp.reason = "notFound"
                \/ \E k \in 1..(Len(DeleteCalls) - 1) : DeleteCalls[k].resp.kind = "ok")
                 => result.kind = "raise"

C16_Witness ==
  /\ DPDone
  /\ del_count = 2
  /\ DeleteCalls[1].resp.kind = "ok"
  /\ DeleteCalls[2].resp.reason = "notFound"
  /\ result.kind = "raise"

STDone == pc = "done" /\ op = "search_tracks"

\* C18: search_tracks never asks the remote for more than 50 results: for
\* every limit from 1 to 100 the maxResults sent is the limit when the limit
\* is at most 50, and 50 otherwise.
C18_Cap ==
  (op = "search_tracks" /\ SearchCalls # <<>>) =>
    LET sent == SearchCalls[1].req.maxResults
    IN /\ sent <= 50
       /\ st_args.limit <= 50 => sent = st_args.limit
       /\ st_args.limit > 50 => sent = 50
       /\ Len(SearchCalls[1].resp.items) <= sent

C18_Witness ==
  /\ STDone
  /\ st_args.limit = 100
  /\ SearchCalls[1].req.maxResults = 50
  /\ Len(SearchCalls[1].resp.items) = 2

\* C19: search_tracks issues exactly one remote search request, and when that
\* request fails it raises RuntimeError "Search failed" and returns no list.
C19_OneCall ==
  STDone =>
    /\ Len(calls) = 1
    /\ calls[1].req.api = "search.list"
    /\ calls[1].resp.kind = "error" =>
         result = [kind |-> "raise", error |-> "RuntimeError", msg |-> "Search failed"]
    /\ calls[1].resp.kind = "ok" =>
         /\ result.kind = "return"
         /\ Len(result.value) = Len(calls[1].resp.items)

C19_Witness ==
  /\ STDone
  /\ calls[1].resp.kind = "error"
  /\ result.kind = "raise"
  /\ st_args.filter = "playlists"

\* C20: search_and_add_to_playlist goes through the queries one by one, in
\* input order: the k-th remote request is the songs search for the k-th
\* query, capped to one result, and a failed query does not stop the searches
\* of the queries after it.
C20_Sequential ==
  op = "search_and_add_to_playlist" =>
    /\ Len(SearchCalls) <= Len(search_queries)
    /\ \A k \in 1..Len(SearchCalls) :
         /\ calls[k] = SearchCalls[k]
         /\ SearchCalls[k].req.q \in {search_queries[k], search_queries[k] \o " music"}
         /\ SearchCalls[k].req.maxResults = 1
         /\ SearchCalls[k].req.type = "video"
         /\ SearchCalls[k].req.videoCategoryId = "10"
    /\ pc \in {"add_loop", "sa_return", "done", "returned"} =>
         Len(SearchCalls) = Len(search_queries)

C20_Witness ==
  /\ SADone
  /\ search_queries = <<"neu", "can music", "neu">>
  /\ SearchCalls[1].resp.kind = "error"
  /\ SearchCalls[2].resp.kind = "ok" /\ SearchCalls[2].resp.items = <<>>
  /\ SearchCalls[3].resp.kind = "ok" /\ SearchCalls[3].resp.items # <<>>
  /\ SearchCalls[3].req.q = "neu music"
  /\ SearchCalls[2].req.q = "can music"

\* the call ended in an error: the client method raised, an argument was
\* missing, or the tool name is not one of the server's
ToolErrorOutcome ==
  \/ result.kind = "raise"
  \/ op = "missing_argument"
  \/ tool_name \notin ToolNames(server)

\* C17: call_tool always returns a text result, for known and unknown tool
\* names and for every failure of the client method, and every error outcome
\* is a text that starts with "Error:".
C17_ErrorPrefix ==
  pc = "returned" =>
    /\ tool_result.type = "text"
    /\ ToolErrorOutcome => tool_result.text[1] = "Error: "
\* C23: update_playlist raises its update error with the not-found cause when
\* the fetch names no playlist, and then issues no write request; when the
\* write request fails it raises its update error.
C23_NotFoundNoWrite ==
  (op = "update_playlist" /\ calls # <<>>) =>
    /\ calls[1].req = FetchRequest(PlaylistId)
    /\ (calls[1].resp.kind = "ok" /\ calls[1].resp.items = <<>>) =>
         /\ WriteCalls = <<>>
         /\ Len(calls) = 1
         /\ pc \in {"done", "returned"}
         /\ result = UpdateError("Playlist not found")
    /\ (WriteCalls # <<>> /\ WriteCalls[1].resp.kind = "error") =>
         /\ pc \in {"done", "returned"}
         /\ result.kind = "raise"
         /\ result.error = "RuntimeError"
         /\ result.msg = "Failed to update playlist"

C23_Witness ==
  /\ UPDone
  /\ Len(calls) = 1
  /\ calls[1].resp.kind = "ok"
  /\ calls[1].resp.items = <<>>
  /\ result.kind = "raise"
  /\ result.cause = "Playlist not found"

\* C26: update_playlist takes an empty title for no title and writes the
\* fetched title back, takes an empty description for a description and
\* writes the empty description, and writes the fetched description back only
\* when the description is None.
C26_EmptyFields ==
  (op = "update_playlist" /\ WriteCalls # <<>>) =>
    LET fetched == calls[1].resp.items[1].snippet
        written == WriteCalls[1].req.body.snippet
    IN /\ up_args.title = "" => written.title = fetched.title
       /\ up_args.description = "" => written.description = ""
       /\ (written.description = fetched.description) <=> (up_args.description = None)

C26_Witness ==
  /\ UPDone
  /\ result.kind = "return"
  /\ up_args.title = ""
  /\ up_args.description = ""
  /\ WriteCalls[1].req.body.snippet.title = "T0"
  /\ WriteCalls[1].req.body.snippet.description = ""
  /\ result.value.description = ""

\* the tracks of the whole remote playlist, page after page
RECURSIVE AllRemoteTracks(_, _)
AllRemoteTracks(sizes, k) ==
  IF k > Len(sizes) THEN <<>>
  ELSE [n \in 1..sizes[k] |-> TrackOf(RemotePageItems(sizes, k)[n])]
         \o AllRemoteTracks(sizes, k + 1)

\* C24: get_playlist with a positive cap L returns the first min(L, total)
\* tracks of what it returns with no cap, which is the whole remote playlist,
\* so never more than L, also when the cap is reached inside a page; with or
\* without a cap trackCount is the item count of the metadata.
C24_CappedPrefix ==
  (GPDone /\ result.kind = "return") =>
    LET whole == AllRemoteTracks(remote_pages, 1)
        total == SumSeq(remote_pages)
    IN /\ Len(whole) = total
       /\ result.value.trackCount = MetaCalls[1].resp.items[1].contentDetails.itemCount
       /\ ~TruthyInt(limit) => result.value.tracks = whole
       /\ limit > 0 =>
            /\ result.value.tracks = SubSeq(whole, 1, Min(limit, total))
            /\ Len(result.value.tracks) = Min(limit, total)
            /\ Len(result.value.tracks) <= limit

C24_Witness ==
  /\ GPDone
  /\ result.kind = "return"
  /\ limit = 3
  /\ remote_pages = <<2, 2, 1>>
  /\ Len(PageCalls) = 2
  /\ Len(result.value.tracks) = 3
  /\ result.value.tracks[3].position = 2
  /\ result.value.trackCount # 5

\* C21: an invocation has at most one remote request outstanding: a request
\* is issued only when none is outstanding, one at a time, and the request a
\* step answers is the one outstanding, which it leaves answered before the
\* next is issued; so in the search, add-items, create-then-add and paging
\* loops every request is answered before the next one goes out.
C21_OneOutstanding ==
  [][/\ Len(pending') <= 1
     /\ (pending' # pending /\ pending' # <<>>) =>
          /\ pending = <<>>
          /\ calls' = calls
     /\ calls' # calls =>
          /\ Len(calls') = Len(calls) + 1
          /\ SubSeq(calls', 1, Len(calls)) = calls
          /\ pending = <<calls'[Len(calls')].req>>
          /\ pending' = <<>>]_vars

C21_Witness ==
  /\ op = "search_and_add_to_playlist"
  /\ pc = "add_loop"
  /\ Len(pending) = 1
  /\ Len(SearchCalls) = 2
  /\ Len(InsertCalls) = 1
  /\ Len(item_ids) = 2
  /\ pending[1] = InsertRequest(PlaylistId, item_ids[2])

\* C25: get_playlist on a remote playlist of N pages, the last of which has
\* no continuation token, never issues more than N page requests and always
\* comes to its end, with or without a cap and also when pages hold no items.
C25_Terminates ==
  /\ [](op = "get_playlist" => Len(PageCalls) <= Len(remote_pages))
  /\ (op = "get_playlist") ~> (op = "get_playlist" /\ pc \in {"done", "returned"})

C25_Witness ==
  /\ GPDone
  /\ result.kind = "return"
  /\ remote_pages = <<0, 0, 1>>
  /\ limit = 2
  /\ Len(PageCalls) = 3
  /\ Len(result.value.tracks) = 1

\* what search_and_add_to_playlist run alone collects from its first n
\* queries and the answers to them
RECURSIVE AloneSearched(_, _, _)
AloneSearched(queries, resps, n) ==
  IF n = 0
  THEN [video_ids |-> <<>>, added_tracks |-> <<>>, failed_queries |-> <<>>]
  ELSE SAClassify(AloneSearched(queries, resps, n - 1), queries[n],
                  search_tracks(queries[n], 1, "songs", resps[n]))

\* what get_playlist run alone collects from the answers 2..m, the first
\* answer being the metadata
RECURSIVE AloneTracks(_, _, _)
AloneTracks(resps, lim, m) ==
  IF m <= 1 THEN <<>>
  ELSE IF resps[m].kind = "error" THEN AloneTracks(resps, lim, m - 1)
  ELSE AppendPage(AloneTracks(resps, lim, m - 1), resps[m].items, lim)

\* the result of invocation i run alone on the answers it got
AloneResult(i) ==
  LET v == invs[i]
  IN IF v.kind = "sa"
     THEN LET acc == AloneSearched(v.queries, v.resps, Len(v.queries))
          IN [kind |-> "return",
              value |-> SAResult(acc.video_ids, acc.added_tracks, acc.failed_queries)]
     ELSE LET m == MetaOutcome(v.resps[1])
          IN IF m.kind = "raise" THEN m
             ELSE IF v.resps[Len(v.resps)].kind = "error"
             THEN RetrievalError("remote error")
             ELSE GetPlaylistResult(ConcPlaylist(i), [title |-> "T", description |-> "D"],
                                    m.itemCount, AloneTracks(v.resps, v.limit, Len(v.resps)))

\* the lists of invocation i hold what it would have collected alone, and
\* nothing of the other invocation's queries or playlist
OwnAccumulators(i) ==
  LET v == invs[i]
      a == Accumulators(i)
  IN /\ v.kind = "sa" =>
          LET alone == AloneSearched(v.queries, v.resps, v.qi - 1)
          IN /\ a.video_ids = alone.video_ids
             /\ a.added_tracks = alone.added_tracks
             /\ a.failed_queries = alone.failed_queries
             /\ \A k \in 1..Len(a.added_tracks) : a.added_tracks[k].query = ConcQuery(i)
             /\ \A k \in 1..Len(a.video_ids) : a.video_ids[k] = ConcVideo(i)
             /\ \A k \in 1..Len(a.failed_queries) : a.failed_queries[k] = ConcQuery(i)
     /\ (v.kind = "gp" /\ v.pc # "gp_meta" /\ MetaOutcome(v.resps[1]).kind # "raise") =>
          /\ a.tracks = AloneTracks(v.resps, v.limit, Len(v.resps))
          /\ \A k \in 1..Len(a.tracks) :
               a.tracks[k].position = ConcBase(i) + k - 1

\* C22: two invocations of search_and_add_to_playlist or get_playlist on the
\* one client, interleaved in any way at their remote calls: the handle of the
\* client is never written, the lists of each invocation hold only what it
\* collected itself, and each returns what it returns when run alone on the
\* same answers.
C22_NonInterference ==
  /\ [](\A i \in Invocations :
          /\ OwnAccumulators(i)
          /\ invs[i].pc = "done" => invs[i].result = AloneResult(i))
  /\ [][youtube' = youtube]_vars

C22_Witness ==
  /\ invs[1].kind = "sa" /\ invs[1].pc = "done"
  /\ invs[2].kind = "gp" /\ invs[2].pc = "gp_loop"
  /\ Len(frames[1].added_tracks) = 1
  /\ Len(frames[1].failed_queries) = 1
  /\ Len(frames[2].tracks) = 2
  /\ invs[1].result.value.addedCount = 1

====
